---- MODULE Spec2Model ----
(***************************************************************************)
(* Model of toolkit/billing_engine.py: UsageTracker (the usage_events and  *)
(* invoices tables), BillingEngine (generate_invoice, check_payment_status)*)
(* and CostProjector.                                                      *)
(*                                                                         *)
(* Money is kept in exact decimal fixed point.  unit_price and every       *)
(* product quantity * unit_price are in mills (1/1000 dollar), so that     *)
(* "total * 100" of the code is the mill amount divided by MillsPerCent    *)
(* and int() truncates it toward zero.  Time is counted in calendar days,  *)
(* which is all the date filter of get_unbilled_usage can tell apart.  The *)
(* host clock is taken to be UTC, so datetime.now() and SQLite's           *)
(* CURRENT_TIMESTAMP read the same clock.                                  *)
(* The payment gateway (the stripe package) is the environment: each call  *)
(* to it either completes or raises StripeError, as chosen by the input    *)
(* `fail`, and what it reports for an invoice is an input as well.         *)
(***************************************************************************)
EXTENDS Integers, Sequences, FiniteSets

VARIABLES
    usage_events,    \* table usage_events, in id order
    invoices,        \* table invoices, in id order
    invoice_events,  \* history: for each row of invoices, the ids of the events aggregated into its line items
    gw_customers,    \* gateway: e-mails that have a customer object
    gw_invoices,     \* gateway: invoices, the external id is the index
    now,             \* the wall clock
    result,          \* what the last call returned
    projection       \* what the last CostProjector call returned

vars == <<usage_events, invoices, invoice_events, gw_customers, gw_invoices, now, result, projection>>

billing_vars == <<usage_events, invoices, invoice_events, gw_customers, gw_invoices, now, result>>

----------------------------------------------------------------------------
(* Bounds and input sets *)

MaxEvents == 2

MaxGwInvoices == 2

MaxClock == 1

MillsPerCent == 10

Customers == {"c1", "c2"}

Emails == {"a@x"}

\* the inputs of track_event: <<customer_id, service, quantity, unit_price>>
EventInputs ==
    { <<"c1", "api", 2, 19>>, <<"c1", "gb", 2, 19>>, <<"c1", "api", -1, 5>>, <<"c2", "api", 2, 5>> }

PeriodDays == {0, 1, 30}

\* the statuses Invoice.retrieve is taken to report
GatewayStatuses == {"open", "paid", "void"}

----------------------------------------------------------------------------
(* Helpers *)

RECURSIVE SumSeq(_)
SumSeq(s) == IF s = <<>> THEN 0 ELSE Head(s) + SumSeq(Tail(s))

Abs(x) == IF x < 0 THEN -x ELSE x

\* int(x): truncation toward zero of num / den, den > 0
TruncDiv(num, den) == IF num >= 0 THEN num \div den ELSE -((-num) \div den)

\* created_at >= ? in SQL, between the text 'YYYY-MM-DD HH:MM:SS' that
\* CURRENT_TIMESTAMP stored and the text 'YYYY-MM-DDTHH:MM:SS.ffffff' that
\* isoformat() produced: the dates decide, and on equal dates the stored ' '
\* sorts before the 'T' of the parameter.
SqlGeqIso(created_at, start) ==
    IF created_at # start THEN created_at > start ELSE FALSE

\* ORDER BY created_at: a stable insertion of e into a sequence sorted by created_at
RECURSIVE InsertByCreatedAt(_, _)
InsertByCreatedAt(e, s) ==
    IF s = <<>> THEN <<e>>
    ELSE IF Head(s).created_at <= e.created_at
         THEN <<Head(s)>> \o InsertByCreatedAt(e, Tail(s))
         ELSE <<e>> \o s

RECURSIVE OrderByCreatedAt(_)
OrderByCreatedAt(s) ==
    IF s = <<>> THEN <<>>
    ELSE InsertByCreatedAt(s[Len(s)], OrderByCreatedAt(SubSeq(s, 1, Len(s) - 1)))

\* the WHERE clause of get_unbilled_usage; start_date is {} (None) or {t}
MatchesQuery(e, customer_id, start_date) ==
    /\ e.customer_id = customer_id
    /\ \A t \in start_date : SqlGeqIso(e.created_at, t)

\* UsageTracker.get_unbilled_usage
GetUnbilledUsage(customer_id, start_date) ==
    LET rows == OrderByCreatedAt(SelectSeq(usage_events, LAMBDA e : MatchesQuery(e, customer_id, start_date)))
    IN  [i \in 1..Len(rows) |->
            [id |-> rows[i].id, service |-> rows[i].service, quantity |-> rows[i].quantity,
             unit_price |-> rows[i].unit_price, created_at |-> rows[i].created_at,
             line_total |-> rows[i].quantity * rows[i].unit_price]]

\* UsageTracker.calculate_total
CalculateTotal(customer_id, start_date) ==
    LET events == GetUnbilledUsage(customer_id, start_date)
    IN  SumSeq([i \in 1..Len(events) |-> events[i].line_total])

\* mutant: a line item's total taken as its summed quantity times the unit
\* price of the service's first event
RECURSIVE AggregateAtFirstPrice(_)
AggregateAtFirstPrice(events) ==
    IF events = <<>> THEN <<>>
    ELSE LET before == AggregateAtFirstPrice(SubSeq(events, 1, Len(events) - 1))
             event == events[Len(events)]
             known == {i \in 1..Len(before) : before[i].service = event.service}
         IN  IF known = {}
             THEN Append(before, [service |-> event.service, quantity |-> event.quantity,
                                  unit_price |-> event.unit_price, total |-> event.line_total])
             ELSE [i \in 1..Len(before) |->
                     IF i \in known
                     THEN [before[i] EXCEPT !.quantity = @ + event.quantity,
                                            !.total = (before[i].quantity + event.quantity)
                                                      * before[i].unit_price]
                     ELSE before[i]]

\* the aggregation loop of generate_invoice: one line item per service, in
\* the order the services first appear
RECURSIVE Aggregate(_)
Aggregate(events) ==
    IF events = <<>> THEN <<>>
    ELSE LET before == Aggregate(SubSeq(events, 1, Len(events) - 1))
             event == events[Len(events)]
             known == {i \in 1..Len(before) : before[i].service = event.service}
         IN  IF known = {}
             THEN Append(before, [service |-> event.service, quantity |-> event.quantity,
                                  unit_price |-> event.unit_price, total |-> event.line_total])
             ELSE [i \in 1..Len(before) |->
                     IF i \in known
                     THEN [before[i] EXCEPT !.quantity = @ + event.quantity,
                                            !.total = @ + event.line_total]
                     ELSE before[i]]

\* amount=int(item["total"] * 100)
ItemAmount(item) == TruncDiv(item.total, MillsPerCent)

\* the gateway calls generate_invoice makes, in order
GatewayCalls(has_customer, n_items) ==
    <<"customer_list">>
    \o (IF has_customer THEN <<>> ELSE <<"customer_create">>)
    \o <<"invoice_create">>
    \o [i \in 1..n_items |-> "item_create"]
    \o <<"finalize", "send">>

\* the calls that completed when call number `fail` raised (0: none raised)
Completed(calls, fail) == IF fail = 0 THEN calls ELSE SubSeq(calls, 1, fail - 1)

Did(done, call) == \E i \in 1..Len(done) : done[i] = call

CountOf(done, call) == Cardinality({i \in 1..Len(done) : done[i] = call})

\* invoice.amount_due, which the gateway totals from the invoice's items
AmountDue(gw_invoice) == SumSeq(gw_invoice.items)

\* mutant: the INSERT placed before send_invoice
RecordsInvoiceBeforeSend(done) == Did(done, "finalize")

\* mutant: the INSERT placed right after Invoice.create
RecordsInvoiceOnCreate(done) == Did(done, "invoice_create")

\* the INSERT INTO invoices is reached once every gateway call up to
\* send_invoice has returned
RecordsInvoice(done) == Did(done, "send")

\* the row generate_invoice inserts
InvoiceRecord(customer_id, external_id, gw_invoice, period_start, period_end) ==
    [id |-> Len(invoices) + 1,
     customer_id |-> customer_id,
     stripe_invoice_id |-> external_id,
     amount_cents |-> AmountDue(gw_invoice),
     status |-> gw_invoice.status,
     period_start |-> period_start,
     period_end |-> period_end,
     paid_at |-> {}]

\* mutant: every status but "open" taken for a payment
UpdatesLocalStatusNotOpen(reported) == reported # "open"

\* if invoice.status == "paid"
UpdatesLocalStatus(reported) == reported = "paid"

\* UPDATE invoices SET status = 'paid', paid_at = now WHERE stripe_invoice_id = ?
MarkPaid(rows, invoice_id) ==
    [i \in 1..Len(rows) |->
        IF rows[i].stripe_invoice_id = invoice_id
        THEN [rows[i] EXCEPT !.status = "paid", !.paid_at = {now}]
        ELSE rows[i]]

\* what a call returned; raised: whether a gateway call of it raised StripeError
NoResult == [op |-> "none", outcome |-> "none", raised |-> FALSE, invoice_id |-> 0, reported |-> "none",
             line_items |-> <<>>]

NoProjection == [kind |-> "none"]

\* "Viable" if margin_percent >= 50
ApiMarginThreshold == 50

\* "Viable" if margin_percent >= 60
ComputeMarginThreshold == 60

\* the inputs of project_api_service: <<expected_calls_per_month,
\* api_cost_per_call in mills, proposed_price_per_1k in dollars>>
ApiInputs ==
    ({0, 1000, 2000} \X {1, 2, 5, 10} \X {0, 2, 4, 5, 20})
    \cup { <<50000, 2, 5>>, <<1000, 1251, 2500>> }

\* the inputs of project_compute_service: <<hours_per_month,
\* compute_cost_per_hour in cents, hourly_rate in cents>>
ComputeInputs == {0, 10, 20} \X {1000, 2000, 4000, 4002, 5000} \X {0, 5000, 10000, 10005}

\* round(): num / den to the nearest integer, ties to the even one; den > 0
RoundHalfEven(num, den) ==
    LET q == num \div den
        r == num % den
    IN  IF 2 * r < den THEN q
        ELSE IF 2 * r > den THEN q + 1
        ELSE IF q % 2 = 0 THEN q ELSE q + 1

\* margin_percent >= threshold, on the margin as computed: profit / revenue * 100, or 0
MeetsThreshold(monthly_profit, monthly_revenue, threshold) ==
    IF monthly_revenue > 0
    THEN monthly_profit * 100 >= threshold * monthly_revenue
    ELSE 0 >= threshold

\* the dict both projections return, from monthly_cost and monthly_revenue in
\* units of 1/per_cent cent: the money rounded to cents, the margin to tenths
\* of a percent
ProjectionResult(kind, args, monthly_cost, monthly_revenue, per_cent, threshold) ==
    LET monthly_profit == monthly_revenue - monthly_cost
    IN  [kind |-> kind,
         args |-> args,
         monthly_cost |-> RoundHalfEven(monthly_cost, per_cent),
         monthly_revenue |-> RoundHalfEven(monthly_revenue, per_cent),
         monthly_profit |-> RoundHalfEven(monthly_profit, per_cent),
         margin_percent |-> IF monthly_revenue > 0
                            THEN RoundHalfEven(monthly_profit * 1000, monthly_revenue)
                            ELSE 0,
         viable |-> MeetsThreshold(monthly_profit, monthly_revenue, threshold)]

\* CostProjector.project_api_service, in mills
ProjectApiServiceResult(expected_calls_per_month, api_cost_per_call, proposed_price_per_1k) ==
    ProjectionResult("api", <<expected_calls_per_month, api_cost_per_call, proposed_price_per_1k>>,
                     expected_calls_per_month * api_cost_per_call,
                     expected_calls_per_month * proposed_price_per_1k,
                     MillsPerCent, ApiMarginThreshold)

\* CostProjector.project_compute_service, in cents
ProjectComputeServiceResult(hours_per_month, compute_cost_per_hour, hourly_rate) ==
    ProjectionResult("compute", <<hours_per_month, compute_cost_per_hour, hourly_rate>>,
                     hours_per_month * compute_cost_per_hour,
                     hours_per_month * hourly_rate,
                     1, ComputeMarginThreshold)

----------------------------------------------------------------------------
(* Actions *)

Init ==
    /\ usage_events = <<>>
    /\ invoices = <<>>
    /\ invoice_events = <<>>
    /\ gw_customers = {}
    /\ gw_invoices = <<>>
    /\ now = 0
    /\ result = NoResult
    /\ projection = NoProjection

\* time passes
Tick ==
    /\ now < MaxClock
    /\ now' = now + 1
    /\ UNCHANGED <<usage_events, invoices, invoice_events, gw_customers, gw_invoices, result, projection>>

\* UsageTracker.track_event
TrackEvent(customer_id, service, quantity, unit_price) ==
    /\ Len(usage_events) < MaxEvents
    /\ usage_events' = Append(usage_events,
            [id |-> Len(usage_events) + 1, customer_id |-> customer_id, service |-> service,
             quantity |-> quantity, unit_price |-> unit_price, created_at |-> now])
    /\ result' = [NoResult EXCEPT !.op = "track_event", !.outcome = "ok"]
    /\ UNCHANGED <<invoices, invoice_events, gw_customers, gw_invoices, now, projection>>

\* BillingEngine.generate_invoice when the query returns no rows
GenerateInvoiceNoUsage(customer_id, customer_email, billing_period_days) ==
    LET period_end == now
        period_start == period_end - billing_period_days
        events == GetUnbilledUsage(customer_id, {period_start})
    IN  /\ events = <<>>
        /\ result' = [NoResult EXCEPT !.op = "generate_invoice", !.outcome = "no_usage"]
        /\ UNCHANGED <<usage_events, invoices, invoice_events, gw_customers, gw_invoices, now, projection>>

\* BillingEngine.generate_invoice when there are rows: the gateway calls are
\* made in order; call number `fail` raises StripeError (0: none does)
GenerateInvoiceBill(customer_id, customer_email, billing_period_days, fail) ==
    LET period_end == now
        period_start == period_end - billing_period_days
        events == GetUnbilledUsage(customer_id, {period_start})
        line_items == Aggregate(events)
        calls == GatewayCalls(customer_email \in gw_customers, Len(line_items))
        done == Completed(calls, fail)
        n_added == CountOf(done, "item_create")
        external_id == Len(gw_invoices) + 1
        \* the gateway's invoice object: a draft until finalized, open after
        gw_invoice == [customer |-> customer_email,
                       items |-> [i \in 1..n_added |-> ItemAmount(line_items[i])],
                       status |-> IF Did(done, "finalize") THEN "open" ELSE "draft",
                       sent |-> Did(done, "send")]
    IN  /\ events # <<>>
        /\ Len(gw_invoices) < MaxGwInvoices
        /\ fail \in 0..Len(calls)
        /\ gw_customers' = IF Did(done, "customer_create")
                           THEN gw_customers \cup {customer_email} ELSE gw_customers
        /\ gw_invoices' = IF Did(done, "invoice_create")
                          THEN Append(gw_invoices, gw_invoice) ELSE gw_invoices
        /\ IF RecordsInvoice(done)
           THEN /\ invoices' = Append(invoices,
                        InvoiceRecord(customer_id, external_id, gw_invoice, period_start, period_end))
                /\ invoice_events' = Append(invoice_events, {events[i].id : i \in 1..Len(events)})
                /\ result' = [NoResult EXCEPT !.op = "generate_invoice", !.outcome = "ok",
                                              !.raised = (fail # 0), !.invoice_id = external_id,
                                              !.line_items = line_items]
           ELSE /\ UNCHANGED <<invoices, invoice_events>>
                /\ result' = [NoResult EXCEPT !.op = "generate_invoice", !.outcome = "error",
                                              !.raised = (fail # 0)]
        /\ UNCHANGED <<usage_events, now, projection>>

\* BillingEngine.check_payment_status; `reported` is the status the gateway
\* returns for the invoice, or "error" when Invoice.retrieve raises
CheckPaymentStatus(invoice_id, reported) ==
    /\ invoice_id \notin 1..Len(gw_invoices) => reported = "error"
    /\ IF reported # "error" /\ UpdatesLocalStatus(reported)
       THEN invoices' = MarkPaid(invoices, invoice_id)
       ELSE UNCHANGED invoices
    /\ result' = [NoResult EXCEPT !.op = "check_payment_status",
                                  !.outcome = IF reported = "error" THEN "error" ELSE "ok",
                                  !.raised = (reported = "error"),
                                  !.invoice_id = invoice_id, !.reported = reported]
    /\ UNCHANGED <<usage_events, invoice_events, gw_customers, gw_invoices, now, projection>>

\* CostProjector.project_api_service
ProjectApiService(expected_calls_per_month, api_cost_per_call, proposed_price_per_1k) ==
    /\ projection' = ProjectApiServiceResult(expected_calls_per_month, api_cost_per_call,
                                              proposed_price_per_1k)
    /\ UNCHANGED billing_vars

\* CostProjector.project_compute_service
ProjectComputeService(hours_per_month, compute_cost_per_hour, hourly_rate) ==
    /\ projection' = ProjectComputeServiceResult(hours_per_month, compute_cost_per_hour, hourly_rate)
    /\ UNCHANGED billing_vars

Next ==
    \/ Tick
    \/ \E e \in EventInputs : TrackEvent(e[1], e[2], e[3], e[4])
    \/ \E c \in Customers, e \in Emails, d \in PeriodDays : GenerateInvoiceNoUsage(c, e, d)
    \/ \E c \in Customers, e \in Emails, d \in PeriodDays, f \in 0..(MaxEvents + 5) :
            GenerateInvoiceBill(c, e, d, f)
    \/ \E id \in 1..MaxGwInvoices, r \in GatewayStatuses \cup {"error"} : CheckPaymentStatus(id, r)

Spec == Init /\ [][Next]_vars

\* the cost projector on its own: it is stateless and touches no table
NextProjector ==
    \/ \E a \in ApiInputs : ProjectApiService(a[1], a[2], a[3])
    \/ \E a \in ComputeInputs : ProjectComputeService(a[1], a[2], a[3])

SpecProjector == Init /\ [][NextProjector]_vars

----------------------------------------------------------------------------
(* Properties *)

\* the ids of the events billed by some invoice generate_invoice created
BilledIds == UNION {invoice_events[i] : i \in 1..Len(invoice_events)}

\* the stored event with the given id
EventById(id) == usage_events[id]

\* C1: no double-billing. Every usage event is in the line items of at most
\* one created invoice: no two invoice rows were built from a common event.
C1_NoDoubleBilling ==
    \A i, j \in 1..Len(invoice_events) :
        i # j => invoice_events[i] \cap invoice_events[j] = {}

\* C2: get_unbilled_usage(customer) returns exactly the customer's events that
\* no created invoice has billed, each once, ordered by created_at, then id.
C2_UnbilledIsExact ==
    \A c \in Customers :
        LET got == GetUnbilledUsage(c, {})
            want == {k \in 1..Len(usage_events) :
                        usage_events[k].customer_id = c /\ k \notin BilledIds}
        IN  /\ {got[i].id : i \in 1..Len(got)} = want
            /\ Len(got) = Cardinality(want)
            /\ \A i, j \in 1..Len(got) :
                    i < j => \/ got[i].created_at < got[j].created_at
                             \/ got[i].created_at = got[j].created_at /\ got[i].id < got[j].id

\* C3: when a gateway call of generate_invoice raises, the call returns an
\* error and leaves the local ledger as it was: no invoice row is inserted,
\* no event is changed or becomes billed. (get_unbilled_usage reads nothing
\* but usage_events, so the same call then reads the same events again.)
C3_GatewayFailureLeavesLedger ==
    [][(result'.op = "generate_invoice" /\ result'.raised) =>
            /\ result'.outcome = "error"
            /\ invoices' = invoices
            /\ usage_events' = usage_events
            /\ invoice_events' = invoice_events]_vars

\* C3 witness: generate_invoice has just failed after the gateway invoice was
\* finalized: the gateway holds it unsent and the ledger has no row for it.
C3_Witness ==
    /\ result.op = "generate_invoice" /\ result.outcome = "error" /\ result.raised
    /\ Len(gw_invoices) = 1 /\ gw_invoices[1].status = "open" /\ ~gw_invoices[1].sent
    /\ invoices = <<>>

\* quantity * unit_price summed over the events with the given ids, in mills
OwedMills(ids) ==
    SumSeq([k \in 1..Len(usage_events) |->
                IF k \in ids THEN usage_events[k].quantity * usage_events[k].unit_price ELSE 0])

\* C4: conservation. For every created invoice the line-item amounts sent to
\* the gateway, in cents, add up to the sum of quantity * unit_price over the
\* events of that invoice, to within one cent in total.
C4_Conservation ==
    \A i \in 1..Len(invoices) :
        LET sent_cents == SumSeq(gw_invoices[invoices[i].stripe_invoice_id].items)
        IN  Abs(sent_cents * MillsPerCent - OwedMills(invoice_events[i])) <= MillsPerCent

\* C5: payment status is terminal. A row whose status is paid (or void) keeps
\* that status in every step, whatever check_payment_status is told or however
\* it fails; and a row becomes paid only in a check_payment_status call for
\* its own invoice in which the gateway reported "paid".
C5_PaidIsTerminal ==
    [][\A i \in 1..Len(invoices') :
            IF i <= Len(invoices)
            THEN /\ invoices[i].status \in {"paid", "void"} =>
                        invoices'[i].status = invoices[i].status
                 /\ (invoices[i].status # "paid" /\ invoices'[i].status = "paid") =>
                        /\ result'.op = "check_payment_status"
                        /\ result'.reported = "paid"
                        /\ result'.invoice_id = invoices[i].stripe_invoice_id
            ELSE invoices'[i].status # "paid"]_vars

\* C5 witness: a paid row was checked again and the gateway then reported
\* another status, or the call failed.
C5_Witness ==
    \E i \in 1..Len(invoices) :
        /\ invoices[i].status = "paid"
        /\ result.op = "check_payment_status"
        /\ result.invoice_id = invoices[i].stripe_invoice_id
        /\ result.reported \in {"open", "void", "error"}

\* C6: an invoice row is immutable once paid (or void): no step changes any
\* of its fields after that.
C6_PaidRowImmutable ==
    [][\A i \in 1..Len(invoices) :
            invoices[i].status \in {"paid", "void"} => invoices'[i] = invoices[i]]_vars

\* the customer has an event in the period [period_start, period_end] that no
\* invoice has billed
HasUnbilledInPeriod(customer_id, period_start, period_end) ==
    \E k \in 1..Len(usage_events) :
        /\ usage_events[k].customer_id = customer_id
        /\ usage_events[k].id \notin BilledIds
        /\ period_start <= usage_events[k].created_at
        /\ usage_events[k].created_at <= period_end

\* C7: when the customer has no unbilled event in the billing period,
\* generate_invoice returns the "no usage" outcome, makes no gateway call and
\* inserts no invoice row.
C7_NoUsageWhenNothingUnbilled ==
    [][\A c \in Customers, e \in Emails, d \in PeriodDays :
            ( /\ ~HasUnbilledInPeriod(c, now - d, now)
              /\ \/ GenerateInvoiceNoUsage(c, e, d)
                 \/ \E f \in 0..(MaxEvents + 5) : GenerateInvoiceBill(c, e, d, f) )
            => /\ result'.outcome = "no_usage"
               /\ gw_customers' = gw_customers
               /\ gw_invoices' = gw_invoices
               /\ invoices' = invoices]_vars

\* C8: every stored usage event has quantity >= 0 and unit_price >= 0
\* (track_event stores nothing otherwise), and no amount sent to the gateway
\* and no invoice total is negative.
C8_NoNegativeUsage ==
    /\ \A k \in 1..Len(usage_events) :
            usage_events[k].quantity >= 0 /\ usage_events[k].unit_price >= 0
    /\ \A g \in 1..Len(gw_invoices) :
            \A n \in 1..Len(gw_invoices[g].items) : gw_invoices[g].items[n] >= 0
    /\ \A i \in 1..Len(invoices) : invoices[i].amount_cents >= 0

\* C9: a projection is viable exactly when the margin percent it returns is
\* at least the threshold (50 for the API service, 60 for the compute
\* service); 50000 calls at 0.002 priced 5.0 per 1000 give cost 100, revenue
\* 250, profit 150, margin 60, viable.
C9_ViableIffReturnedMargin ==
    /\ projection.kind = "api" =>
            (projection.viable <=> projection.margin_percent >= 10 * ApiMarginThreshold)
    /\ projection.kind = "compute" =>
            (projection.viable <=> projection.margin_percent >= 10 * ComputeMarginThreshold)
    /\ (projection.kind = "api" /\ projection.args = <<50000, 2, 5>>) =>
            /\ projection.monthly_cost = 10000
            /\ projection.monthly_revenue = 25000
            /\ projection.monthly_profit = 15000
            /\ projection.margin_percent = 600
            /\ projection.viable

\* C10: the local commit follows the gateway's confirmation. Every invoice row
\* carries the id of a gateway invoice that was finalized and sent and holds
\* one item per service billed, and the row's amount is that invoice's
\* amount due.
C10_RecordedAfterGateway ==
    \A i \in 1..Len(invoices) :
        /\ invoices[i].stripe_invoice_id \in 1..Len(gw_invoices)
        /\ LET g == gw_invoices[invoices[i].stripe_invoice_id]
           IN  /\ g.status # "draft"
               /\ g.sent
               /\ Len(g.items) = Cardinality({EventById(id).service : id \in invoice_events[i]})
               /\ invoices[i].amount_cents = AmountDue(g)

\* C10 witness: one call got as far as creating the gateway invoice and
\* failed, leaving no row; another completed and left its row.
C10_Witness ==
    /\ Len(gw_invoices) = 2 /\ Len(invoices) = 1
    /\ \E g \in 1..2 : ~gw_invoices[g].sent
    /\ Len(gw_invoices[invoices[1].stripe_invoice_id].items) = 2

\* the events among `ids` that are of the given service
OfService(ids, service) == {k \in ids : usage_events[k].service = service}

\* the quantities of the events with the given ids, summed
QuantityOf(ids) ==
    SumSeq([k \in 1..Len(usage_events) |-> IF k \in ids THEN usage_events[k].quantity ELSE 0])

\* C11: aggregation by service. The line items generate_invoice returns hold
\* exactly one entry per distinct service among the events it read; the
\* entry's quantity is the sum of those events' quantities and its total the
\* sum of each event's own quantity * unit_price.
C11_AggregatesByService ==
    (result.op = "generate_invoice" /\ result.outcome = "ok") =>
        LET items == result.line_items
            read == invoice_events[Len(invoice_events)]
            services == {usage_events[k].service : k \in read}
        IN  /\ {items[i].service : i \in 1..Len(items)} = services
            /\ Len(items) = Cardinality(services)
            /\ \A i \in 1..Len(items) :
                    /\ items[i].quantity = QuantityOf(OfService(read, items[i].service))
                    /\ items[i].total = OwedMills(OfService(read, items[i].service))

\* C11 witness: an invoice was created from two events of one service whose
\* unit prices differ, so the two ways of totalling disagree.
C11_Witness ==
    /\ result.op = "generate_invoice" /\ result.outcome = "ok"
    /\ Len(result.line_items) = 1
    /\ \E j, k \in invoice_events[Len(invoice_events)] :
            /\ usage_events[j].service = usage_events[k].service
            /\ usage_events[j].unit_price # usage_events[k].unit_price
    /\ result.line_items[1].total # result.line_items[1].quantity * result.line_items[1].unit_price

====
